---- MODULE Spec2Model ----
(***************************************************************************)
(* ToonConverter: the JSON <-> TOON codec and its token dictionary.        *)
(*                                                                         *)
(* Texts are TLA+ strings handled character by character (Len, SubSeq and  *)
(* \o), so that formatting and parsing are computed, not assumed.          *)
(* A JSON value is a tagged record:                                        *)
(*   [t |-> "null"]   [t |-> "boolean", b |-> TRUE]   [t |-> "number",     *)
(*   n |-> 7]   [t |-> "string", s |-> "a"]   [t |-> "array", items |->    *)
(*   <<...>>]   [t |-> "object", entries |-> << [k |-> "a", v |-> ...] >>] *)
(* Numbers are integers; object entries keep insertion order.  Keys that   *)
(* are canonical array indices ("0", "1", ...), which JavaScript reorders, *)
(* and the key "__proto__" are outside the modelled inputs.                *)
(***************************************************************************)
EXTENDS Integers, Sequences, FiniteSets, TLC

VARIABLES keyToToken, tokenToKey, nextTokenId, held, call, rt, page

vars == <<keyToToken, tokenToKey, nextTokenId, held, call, rt, page>>

(***************************************************************************)
(* Bounds of the model.                                                    *)
(***************************************************************************)
\* jsonToToon / getToken calls are explored while the counter stays <= this.
MaxTokenId == 4
\* nesting depth of the JSON values whose round trip is explored
MaxDepth == 2
\* number of lines of the texts built line by line for toonToJson
MaxLines == 4

\* F(x) with x evaluated once, however often F uses it: the local constant of
\* the source (const r = ...), where a LET would evaluate x at every use.
With(x, F(_)) == CHOOSE r \in {F(v) : v \in {x}} : TRUE

(***************************************************************************)
(* JSON values.                                                            *)
(***************************************************************************)
JNull == [t |-> "null"]
JBool(b) == [t |-> "boolean", b |-> b]
JNum(n) == [t |-> "number", n |-> n]
JStr(s) == [t |-> "string", s |-> s]
JArr(items) == [t |-> "array", items |-> items]
JObj(entries) == [t |-> "object", entries |-> entries]
KV(k, v) == [k |-> k, v |-> v]

\* JavaScript values that are not JSON: undefined, and a function object with
\* the text String() gives for it.
JUndefined == [t |-> "undefined"]
JFunction(s) == [t |-> "function", s |-> s]

\* typeof x === 'object' && x !== null
IsComplex(v) == v.t \in {"array", "object"}

(***************************************************************************)
(* Strings.                                                                *)
(***************************************************************************)
\* the character at 1-based position i, "" outside the string
CharAt(s, i) == IF i >= 1 /\ i <= Len(s) THEN SubSeq(s, i, i) ELSE ""

\* the characters at positions i..j that exist
Slice(s, i, j) == SubSeq(s, i, IF j <= Len(s) THEN j ELSE Len(s))

SetMin(S) == With(S, LAMBDA T : CHOOSE x \in T : \A y \in T : x <= y)
SetMax(S) == With(S, LAMBDA T : CHOOSE x \in T : \A y \in T : x >= y)

\* White space as String.prototype.trim and \s see it (of the characters used).
IsSpace(c) == c \in {" ", "\t", "\n", "\r", "\f"}

NonSpaceAt(s) == {i \in 1..Len(s) : ~IsSpace(CharAt(s, i))}

\* String.prototype.trim
Trim(s) ==
    With(NonSpaceAt(s), LAMBDA ix :
        IF ix = {} THEN "" ELSE SubSeq(s, SetMin(ix), SetMax(ix)))

\* line.search(/\S/): 0-based index of the first non-space character, -1 if none
SearchNonSpace(s) ==
    With(NonSpaceAt(s), LAMBDA ix : IF ix = {} THEN -1 ELSE SetMin(ix) - 1)

\* String.prototype.indexOf(c) for a one-character c, 0-based, -1 if absent
IndexOf(s, c) ==
    With({i \in 1..Len(s) : CharAt(s, i) = c}, LAMBDA ix :
        IF ix = {} THEN -1 ELSE SetMin(ix) - 1)

\* String.prototype.substring(from) and substring(from, to), 0-based
SubstringFrom(s, from) == SubSeq(s, from + 1, Len(s))
Substring(s, from, to) == SubSeq(s, from + 1, to)

\* String.prototype.startsWith
StartsWith(s, p) == Len(s) >= Len(p) /\ SubSeq(s, 1, Len(p)) = p

RECURSIVE Repeat(_, _)
\* String.prototype.repeat
Repeat(s, n) == IF n <= 0 THEN "" ELSE s \o Repeat(s, n - 1)

RECURSIVE SplitOn(_, _)
\* String.prototype.split(sep) for a one-character separator
SplitOn(s, sep) ==
    With(IndexOf(s, sep), LAMBDA p :
        IF p = -1 THEN <<s>>
        ELSE With(SubstringFrom(s, p + 1), LAMBDA rest :
                <<Substring(s, 0, p)>> \o SplitOn(rest, sep)))

RECURSIVE Join(_, _)
\* Array.prototype.join
Join(lines, sep) ==
    IF Len(lines) = 0 THEN ""
    ELSE IF Len(lines) = 1 THEN lines[1]
    ELSE lines[1] \o sep \o With(Tail(lines), LAMBDA rest : Join(rest, sep))

Digits == "0123456789"
IsDigit(c) == Len(c) = 1 /\ IndexOf(Digits, c) >= 0
DigitVal(c) == IndexOf(Digits, c)
DigitChar(d) == CharAt(Digits, d + 1)

RECURSIVE NatToString(_)
NatToString(n) ==
    IF n < 10 THEN DigitChar(n) ELSE NatToString(n \div 10) \o DigitChar(n % 10)

\* Number.prototype.toString for an integer
NumToString(n) == IF n < 0 THEN "-" \o NatToString(0 - n) ELSE NatToString(n)

\* String.prototype.padStart(width, fill) for a one-character fill
PadStart(s, width, fill) == Repeat(fill, width - Len(s)) \o s

\* the value of a string of digits
DigitsValue(s) ==
    LET place[i \in 0..Len(s)] ==
            IF i = 0 THEN 0 ELSE place[i - 1] * 10 + DigitVal(CharAt(s, i))
    IN  place[Len(s)]

AllDigits(s) == Len(s) > 0 /\ \A i \in 1..Len(s) : IsDigit(CharAt(s, i))

NaN == [nan |-> TRUE, n |-> 0]
Num(n) == [nan |-> FALSE, n |-> n]

\* Number(v) for a trimmed v: an optionally signed run of decimal digits is
\* that integer, "" is 0, any other text of the modelled inputs is NaN.
\* (Fractions, exponents, hex/octal/binary literals and "Infinity" are not
\* among the modelled inputs.)
ToNumber(v) ==
    With(IF CharAt(v, 1) \in {"-", "+"} THEN SubstringFrom(v, 1) ELSE v, LAMBDA body :
        IF v = "" THEN Num(0)
        ELSE IF ~AllDigits(body) THEN NaN
        ELSE IF CharAt(v, 1) = "-" THEN Num(0 - DigitsValue(body))
        ELSE Num(DigitsValue(body)))

\* the longest run of digits a string starts with
DigitRun(body) ==
    With({i \in 1..Len(body) : ~IsDigit(CharAt(body, i))}, LAMBDA stops :
        IF stops = {} THEN body ELSE SubSeq(body, 1, SetMin(stops) - 1))

\* parseInt(t, 10): leading white space, an optional sign, then the longest
\* run of digits; NaN when there is no digit.
ParseInt(t) ==
    With(SubstringFrom(t, IF SearchNonSpace(t) = -1 THEN Len(t) ELSE SearchNonSpace(t)),
         LAMBDA u :
        With(DigitRun(IF CharAt(u, 1) \in {"-", "+"} THEN SubstringFrom(u, 1) ELSE u),
             LAMBDA run :
            IF run = "" THEN NaN
            ELSE IF CharAt(u, 1) = "-" THEN Num(0 - DigitsValue(run))
            ELSE Num(DigitsValue(run))))

(***************************************************************************)
(* The token dictionary.                                                   *)
(***************************************************************************)
EmptyMap == [x \in {} |-> ""]

\* map[name] = value on a plain object
Put(map, name, value) == (name :> value) @@ map

\* What a plain object inherits from Object.prototype, as far as the modelled
\* keys and tokens reach it: name -> String(the inherited function).
ObjectPrototype ==
    [constructor |-> "function Object() { [native code] }"]

\* map[name] read from a plain object: an own property, else an inherited
\* one, else undefined.
Get(map, name) ==
    IF name \in DOMAIN map THEN JStr(map[name])
    ELSE IF name \in DOMAIN ObjectPrototype THEN JFunction(ObjectPrototype[name])
    ELSE JUndefined

\* ToBoolean of what Get returns
Truthy(x) == x.t = "function" \/ (x.t = "string" /\ x.s # "")

\* String(x) of what Get returns
ToStr(x) == IF x.t = "undefined" THEN "undefined" ELSE x.s

Dict(k2t, t2k, next) == [keyToToken |-> k2t, tokenToKey |-> t2k, nextTokenId |-> next]

\* Object.entries(initialMap).reduce((acc, [k, v]) => { acc[v] = k; ... }, {})
\* over the entries in the order given
ReverseOf(entries) ==
    LET acc[i \in 0..Len(entries)] ==
            IF i = 0 THEN EmptyMap ELSE Put(acc[i - 1], entries[i].v, entries[i].k)
    IN  acc[Len(entries)]

\* the object { ...initialMap }, initialMap given as its entries in order
MapOfEntries(entries) ==
    LET acc[i \in 0..Len(entries)] ==
            IF i = 0 THEN EmptyMap ELSE Put(acc[i - 1], entries[i].k, entries[i].v)
    IN  acc[Len(entries)]

\* existingIds of the constructor
ExistingIds(k2t) == {ParseInt(k2t[k]).n : k \in {x \in DOMAIN k2t : ~ParseInt(k2t[x]).nan}}

\* new ToonConverter(initialMap)
Construct(entries) ==
    With(MapOfEntries(entries), LAMBDA k2t :
        With(ExistingIds(k2t), LAMBDA existingIds :
            Dict(k2t,
                 ReverseOf(entries),
                 IF existingIds # {} THEN SetMax(existingIds) + 1 ELSE 1)))

\* the branch of getToken that mints
mintToken(d, key) ==
    With(PadStart(NumToString(d.nextTokenId), 2, "0"), LAMBDA token :
        [ret |-> JStr(token),
         dict |-> Dict(Put(d.keyToToken, key, token),
                       Put(d.tokenToKey, token, key),
                       d.nextTokenId + 1)])

\* getToken(key) on dictionary d: what it returns and the dictionary after
getToken(d, key) ==
    With(Get(d.keyToToken, key), LAMBDA found :
        IF Truthy(found) THEN [ret |-> found, dict |-> d] ELSE mintToken(d, key))

\* getKey(token): this.tokenToKey[token] || `UNKNOWN_${token}`
getKey(t2k, token) ==
    With(Get(t2k, token), LAMBDA found :
        IF Truthy(found) THEN found ELSE JStr("UNKNOWN_" \o token))

\* getMapping(): the two internal objects themselves
getMapping(d) == [keyToToken |-> d.keyToToken, tokenToKey |-> d.tokenToKey]

(***************************************************************************)
(* JSON.parse, for the modelled texts: white space, null / true / false,   *)
(* integers, strings with the escapes \" \\ \/ \n \t, arrays and objects.  *)
(* A parse result is [ok, v, i]: whether a value was read, the value, and  *)
(* the 1-based position after it.                                          *)
(***************************************************************************)
ParseFail == [ok |-> FALSE, v |-> JNull, i |-> 0]
ParseOk(v, i) == [ok |-> TRUE, v |-> v, i |-> i]

IsJsonSpace(c) == c \in {" ", "\t", "\n", "\r"}

\* the first position >= i that holds no white space (Len(s) + 1 if none)
SkipWs(s, i) ==
    With({j \in i..Len(s) : ~IsJsonSpace(CharAt(s, j))}, LAMBDA stops :
        IF stops # {} THEN SetMin(stops)
        ELSE IF i > Len(s) THEN i ELSE Len(s) + 1)

\* obj[key] = value on an object kept as its entries in insertion order
ObjSet(entries, key, value) ==
    IF \E j \in 1..Len(entries) : entries[j].k = key
    THEN [j \in 1..Len(entries) |->
            IF entries[j].k = key THEN KV(key, value) ELSE entries[j]]
    ELSE Append(entries, KV(key, value))

RECURSIVE ParseStringBody(_, _, _)
\* what an escape \e stands for, "" if it is not a modelled escape
Unescape(e) ==
    IF e \in {"\"", "\\", "/"} THEN e
    ELSE IF e = "n" THEN "\n"
    ELSE IF e = "t" THEN "\t"
    ELSE IF e = "r" THEN "\r"
    ELSE IF e = "f" THEN "\f"
    ELSE ""

\* the characters of a JSON string from position i (after the opening quote),
\* acc being the characters read so far
ParseStringBody(s, i, acc) ==
    With({j \in i..Len(s) : CharAt(s, j) \in {"\"", "\\", "\n", "\t", "\r", "\f"}}, LAMBDA stops :
        IF stops = {} THEN ParseFail
        ELSE With(SetMin(stops), LAMBDA j :
                IF CharAt(s, j) = "\"" THEN ParseOk(JStr(acc \o SubSeq(s, i, j - 1)), j + 1)
                ELSE IF CharAt(s, j) # "\\" THEN ParseFail
                ELSE IF Unescape(CharAt(s, j + 1)) = "" THEN ParseFail
                ELSE With(acc \o SubSeq(s, i, j - 1) \o Unescape(CharAt(s, j + 1)),
                          LAMBDA more : ParseStringBody(s, j + 2, more))))

\* the digits of a JSON integer as a number, or a failure: no digits, a
\* leading zero, or a fraction / exponent after them
JsonInteger(s, neg, from, to) ==
    With(SubSeq(s, from, to), LAMBDA run :
        IF run = "" THEN ParseFail
        ELSE IF Len(run) > 1 /\ CharAt(run, 1) = "0" THEN ParseFail
        ELSE IF CharAt(s, to + 1) \in {".", "e", "E"} THEN ParseFail
        ELSE ParseOk(JNum(IF neg THEN 0 - DigitsValue(run) ELSE DigitsValue(run)), to + 1))

\* a JSON integer at position i: -? (0 | [1-9][0-9]*)
ParseJsonNumber(s, i) ==
    With(IF CharAt(s, i) = "-" THEN i + 1 ELSE i, LAMBDA from :
        With({j \in from..Len(s) : ~IsDigit(CharAt(s, j))}, LAMBDA stops :
            JsonInteger(s, CharAt(s, i) = "-", from,
                        IF stops = {} THEN Len(s) ELSE SetMin(stops) - 1)))

RECURSIVE ParseJsonValue(_, _)
RECURSIVE ParseElements(_, _, _)
RECURSIVE ParseMembers(_, _, _)

\* after an element r of an array: a comma and more elements, or the bracket
AfterElement(s, r, acc) ==
    With(SkipWs(s, r.i), LAMBDA j :
        With(Append(acc, r.v), LAMBDA more :
            IF CharAt(s, j) = "," THEN ParseElements(s, j + 1, more)
            ELSE IF CharAt(s, j) = "]" THEN ParseOk(JArr(more), j + 1)
            ELSE ParseFail))

\* the elements of an array, i being the position of the next element
ParseElements(s, i, acc) ==
    With(SkipWs(s, i), LAMBDA at :
        With(ParseJsonValue(s, at), LAMBDA r :
            IF ~r.ok THEN ParseFail ELSE AfterElement(s, r, acc)))

\* after the member k: r of an object: a comma and more members, or the brace
AfterMember(s, k, r, acc) ==
    With(SkipWs(s, r.i), LAMBDA j :
        With(ObjSet(acc, k.v.s, r.v), LAMBDA more :
            IF CharAt(s, j) = "," THEN ParseMembers(s, j + 1, more)
            ELSE IF CharAt(s, j) = "}" THEN ParseOk(JObj(more), j + 1)
            ELSE ParseFail))

\* the colon and the value after the key k of a member
AfterKey(s, k, acc) ==
    With(SkipWs(s, k.i), LAMBDA ci :
        IF CharAt(s, ci) # ":" THEN ParseFail
        ELSE With(SkipWs(s, ci + 1), LAMBDA at :
                With(ParseJsonValue(s, at), LAMBDA r :
                    IF ~r.ok THEN ParseFail ELSE AfterMember(s, k, r, acc))))

\* the members of an object, i being the position of the next key
ParseMembers(s, i, acc) ==
    With(SkipWs(s, i), LAMBDA ki :
        IF CharAt(s, ki) # "\"" THEN ParseFail
        ELSE With(ParseStringBody(s, ki + 1, ""), LAMBDA k :
                IF ~k.ok THEN ParseFail ELSE AfterKey(s, k, acc)))

\* one JSON value at position i (white space already skipped)
ParseJsonValue(s, i) ==
    IF CharAt(s, i) = "" THEN ParseFail
    ELSE IF Slice(s, i, i + 3) = "null" THEN ParseOk(JNull, i + 4)
    ELSE IF Slice(s, i, i + 3) = "true" THEN ParseOk(JBool(TRUE), i + 4)
    ELSE IF Slice(s, i, i + 4) = "false" THEN ParseOk(JBool(FALSE), i + 5)
    ELSE IF CharAt(s, i) = "\"" THEN ParseStringBody(s, i + 1, "")
    ELSE IF CharAt(s, i) = "-" \/ IsDigit(CharAt(s, i)) THEN ParseJsonNumber(s, i)
    ELSE IF CharAt(s, i) = "["
    THEN With(SkipWs(s, i + 1), LAMBDA j :
            IF CharAt(s, j) = "]" THEN ParseOk(JArr(<<>>), j + 1)
            ELSE ParseElements(s, j, <<>>))
    ELSE IF CharAt(s, i) = "{"
    THEN With(SkipWs(s, i + 1), LAMBDA j :
            IF CharAt(s, j) = "}" THEN ParseOk(JObj(<<>>), j + 1)
            ELSE ParseMembers(s, j, <<>>))
    ELSE ParseFail

\* JSON.parse(text): [ok |-> FALSE] stands for the SyntaxError it throws
JsonParse(text) ==
    With(SkipWs(text, 1), LAMBDA at :
        With(ParseJsonValue(text, at), LAMBDA r :
            IF r.ok /\ SkipWs(text, r.i) = Len(text) + 1 THEN r ELSE ParseFail))

(***************************************************************************)
(* jsonToToon.  The closure `process` appends to the shared array `lines`  *)
(* and calls getToken, so it is modelled as a function of the encoder's    *)
(* state [lines, dict] that gives its return value and the state after.    *)
(***************************************************************************)
EncState(lines, dict) == [lines |-> lines, dict |-> dict]
Push(st, line) == EncState(Append(st.lines, line), st.dict)
Ret(text, st) == [ret |-> text, st |-> st]

RECURSIVE process(_, _, _)
RECURSIVE processArrayItems(_, _, _, _)
RECURSIVE processArrayObjectKeys(_, _, _, _)
RECURSIVE processObjectEntries(_, _, _, _)

\* the body of keys.forEach((k, idx) => ...) for one key of an object that is
\* an array element; tk is what getToken(k) gave
arrayObjectKey(val, tk, level, st) ==
    With(EncState(st.lines, tk.dict), LAMBDA st1 :
        With(Repeat("  ", level) \o "  " \o ToStr(tk.ret) \o ": ", LAMBDA prefix :
            IF IsComplex(val)
            THEN With(Push(st1, prefix), LAMBDA st2 : process(val, level + 2, st2).st)
            ELSE Push(st1, prefix \o process(val, 0, st1).ret)))

\* keys.forEach((k, idx) => ...) for an object that is an array element
processArrayObjectKeys(entries, idx, level, st) ==
    IF idx > Len(entries) THEN st
    ELSE With(getToken(st.dict, entries[idx].k), LAMBDA tk :
            With(arrayObjectKey(entries[idx].v, tk, level, st), LAMBDA st3 :
                processArrayObjectKeys(entries, idx + 1, level, st3)))

\* the body of item.forEach(subItem => ...) for one element
arrayItem(subItem, level, st) ==
    IF IsComplex(subItem)
    THEN With(Push(st, Repeat("  ", level) \o "-"), LAMBDA dash :
            IF subItem.t = "array"
            THEN process(subItem, level + 1, dash).st
            ELSE processArrayObjectKeys(subItem.entries, 1, level, dash))
    ELSE Push(st, Repeat("  ", level) \o "- " \o process(subItem, 0, st).ret)

\* item.forEach(subItem => ...) for a non-empty array
processArrayItems(items, i, level, st) ==
    IF i > Len(items) THEN st
    ELSE With(arrayItem(items[i], level, st), LAMBDA st1 :
            processArrayItems(items, i + 1, level, st1))

\* the body of Object.entries(item).forEach(([k, v]) => ...) for one entry;
\* tk is what getToken(k) gave
objectEntry(v, tk, level, st) ==
    With(EncState(st.lines, tk.dict), LAMBDA st1 :
        With(Repeat("  ", level) \o ToStr(tk.ret) \o ":", LAMBDA lineStart :
            IF IsComplex(v)
            THEN With(Push(st1, lineStart), LAMBDA st2 : process(v, level + 1, st2).st)
            ELSE Push(st1, lineStart \o " " \o process(v, 0, st1).ret)))

\* Object.entries(item).forEach(([k, v]) => ...) for a non-empty object
processObjectEntries(entries, i, level, st) ==
    IF i > Len(entries) THEN st
    ELSE With(getToken(st.dict, entries[i].k), LAMBDA tk :
            With(objectEntry(entries[i].v, tk, level, st), LAMBDA st2 :
                processObjectEntries(entries, i + 1, level, st2)))

\* process(item, level): [ret |-> the returned string, st |-> the state after]
process(item, level, st) ==
    IF item.t = "null" THEN Ret("null", st)
    ELSE IF item.t = "boolean" THEN Ret(IF item.b THEN "yes" ELSE "no", st)
    ELSE IF item.t = "number" THEN Ret(NumToString(item.n), st)
    ELSE IF item.t = "string" THEN Ret(item.s, st)
    ELSE IF item.t = "array"
    THEN IF Len(item.items) = 0 THEN Ret("[]", st)
         ELSE Ret("", processArrayItems(item.items, 1, level, st))
    ELSE IF Len(item.entries) = 0 THEN Ret("{}", st)
         ELSE Ret("", processObjectEntries(item.entries, 1, level, st))

InvalidJsonInput == "Invalid JSON input"

\* the part of jsonToToon after the try block, obj being the parsed input
encode(d, obj) ==
    With(process(obj, 0, EncState(<<>>, d)), LAMBDA r :
        IF IsComplex(obj)
        THEN [threw |-> FALSE, error |-> "", ret |-> Join(r.st.lines, "\n"),
              dict |-> r.st.dict]
        ELSE [threw |-> FALSE, error |-> "", ret |-> r.ret, dict |-> r.st.dict])

\* jsonToToon, were it to encode the members read before the text stops
\* parsing: the keys of the text's longest prefix of complete members are
\* minted before the error is thrown
jsonToToonPartial(d, jsonInput) ==
    With(IF jsonInput.t = "string" THEN JsonParse(jsonInput.s) ELSE ParseOk(jsonInput, 0),
         LAMBDA parsed :
        IF ~parsed.ok
        THEN With(JsonParse(jsonInput.s \o "}"), LAMBDA closed :
                [threw |-> TRUE, error |-> InvalidJsonInput, ret |-> "",
                 dict |-> IF closed.ok THEN encode(d, closed.v).dict ELSE d])
        ELSE encode(d, parsed.v))

\* jsonToToon(jsonInput) on dictionary d:
\* [threw, error, ret, dict]; a thrown Error leaves ret empty.
jsonToToon(d, jsonInput) ==
    With(IF jsonInput.t = "string" THEN JsonParse(jsonInput.s) ELSE ParseOk(jsonInput, 0),
         LAMBDA parsed :
        IF ~parsed.ok
        THEN [threw |-> TRUE, error |-> InvalidJsonInput, ret |-> "", dict |-> d]
        ELSE encode(d, parsed.v))

(***************************************************************************)
(* toonToJson, pass 1: the indentation tree.  The tree is the sequence of  *)
(* nodes in creation order; a node refers to its parent by position, 0     *)
(* being rootNode and NoNode the null parent of rootNode.  A node's        *)
(* children are the nodes naming it as parent, in creation order, which is *)
(* the order parent.children.push gives them.                              *)
(***************************************************************************)
NoNode == -1
RootRef == 0

\* rootNode: { indent: -1, key: null, value: null, parent: null, isArrayItem: false }
rootNode ==
    [indent |-> -1, key |-> JNull, value |-> JNull, parent |-> NoNode,
     isArrayItem |-> FALSE]

NodeAt(nodes, ref) == IF ref = RootRef THEN rootNode ELSE nodes[ref]

\* node.children, as references in order
Children(nodes, ref) ==
    SelectSeq([j \in 1..Len(nodes) |-> j], LAMBDA j : nodes[j].parent = ref)

\* node.children.length > 0
HasChildren(nodes, ref) == \E j \in 1..Len(nodes) : nodes[j].parent = ref

RECURSIVE findParentFrom(_, _, _)
\* the while loop of findParent, curr being the node looked at
findParentFrom(nodes, curr, indent) ==
    IF curr = NoNode THEN RootRef
    ELSE IF NodeAt(nodes, curr).indent >= indent
    THEN findParentFrom(nodes, NodeAt(nodes, curr).parent, indent)
    ELSE curr

RECURSIVE findParentPast(_, _, _)
\* findParent, were its loop to stop at a node of the same indentation
\* (curr.indent > indent): a sibling line then hangs under its elder sibling
findParentPast(nodes, curr, indent) ==
    IF curr = NoNode THEN RootRef
    ELSE IF NodeAt(nodes, curr).indent > indent
    THEN findParentPast(nodes, NodeAt(nodes, curr).parent, indent)
    ELSE curr

\* findParent(indent), lastNode being the node added last
findParent(nodes, lastNode, indent) == findParentFrom(nodes, lastNode, indent)

\* toonInput.split('\n').filter(l => l.trim().length > 0)
NonBlankLines(toonInput) == SelectSeq(SplitOn(toonInput, "\n"), LAMBDA l : Len(Trim(l)) > 0)

\* null for an empty text, else the text
TextOrNull(part) == IF part = "" THEN JNull ELSE JStr(part)

\* the tree after parent.children.push(newNode); lastNode = newNode
addNode(tree, newNode) ==
    [nodes |-> Append(tree.nodes, newNode), lastNode |-> Len(tree.nodes) + 1]

\* the branch of a line whose content starts with the dash
addArrayItem(tree, indent, content) ==
    With(findParent(tree.nodes, tree.lastNode, indent), LAMBDA parent :
        With(Trim(SubstringFrom(content, 1)), LAMBDA valuePart :
            addNode(tree, [indent |-> indent, key |-> JNull,
                           value |-> TextOrNull(valuePart),
                           parent |-> parent, isArrayItem |-> TRUE])))

\* the branch of a line whose content holds a colon, at colonIdx
addKeyValue(tree, indent, content, colonIdx) ==
    With(findParent(tree.nodes, tree.lastNode, indent), LAMBDA parent :
        With(Trim(Substring(content, 0, colonIdx)), LAMBDA token :
            With(Trim(SubstringFrom(content, colonIdx + 1)), LAMBDA valPart :
                addNode(tree, [indent |-> indent, key |-> JStr(token),
                               value |-> TextOrNull(valPart),
                               parent |-> parent, isArrayItem |-> FALSE]))))

\* the body of the for loop for one line: the tree [nodes, lastNode] after it
addLine(tree, line) ==
    With(SearchNonSpace(line), LAMBDA indent :
        With(Trim(line), LAMBDA content :
            With(IndexOf(content, ":"), LAMBDA colonIdx :
                IF StartsWith(content, "-") THEN addArrayItem(tree, indent, content)
                ELSE IF colonIdx >= 0 THEN addKeyValue(tree, indent, content, colonIdx)
                ELSE tree)))

RECURSIVE addLines(_, _, _)
\* for (const line of lines), from line i on
addLines(tree, lines, i) ==
    IF i > Len(lines) THEN tree
    ELSE With(addLine(tree, lines[i]), LAMBDA next : addLines(next, lines, i + 1))

\* the tree after the for loop over the lines of toonInput
buildTree(toonInput) ==
    With(NonBlankLines(toonInput), LAMBDA lines :
        addLines([nodes |-> <<>>, lastNode |-> RootRef], lines, 1))

(***************************************************************************)
(* toonToJson, pass 2: the tree to a JSON value.                           *)
(***************************************************************************)
\* parseValue(val), val being null or a string
parseValue(val) ==
    IF val.t = "null" THEN JNull
    ELSE With(Trim(val.s), LAMBDA v :
            IF v = "yes" THEN JBool(TRUE)
            ELSE IF v = "no" THEN JBool(FALSE)
            ELSE With(ToNumber(v), LAMBDA num :
                    IF ~num.nan THEN JNum(num.n) ELSE JStr(v)))

\* if (c.key): a key that is neither null nor the empty string
KeyTruthy(key) == key.t = "string" /\ key.s # ""

RECURSIVE convertNode(_, _, _)
RECURSIVE convertArrayItems(_, _, _, _, _)
RECURSIVE convertObjectEntries(_, _, _, _, _)
RECURSIVE convertMixedEntries(_, _, _, _, _)

\* one element of node.children.map(c => ...) of the isArray branch
convertArrayItem(nodes, c, t2k) ==
    IF nodes[c].value.t # "null" /\ ~HasChildren(nodes, c) THEN parseValue(nodes[c].value)
    ELSE IF HasChildren(nodes, c) THEN convertNode(nodes, c, t2k)
    ELSE JNull

\* node.children.map(c => ...) of the isArray branch
convertArrayItems(nodes, kids, i, t2k, acc) ==
    IF i > Len(kids) THEN acc
    ELSE With(Append(acc, convertArrayItem(nodes, kids[i], t2k)), LAMBDA more :
            convertArrayItems(nodes, kids, i + 1, t2k, more))

\* the value of one entry of the isObject branch
convertObjectEntry(nodes, c, t2k) ==
    IF nodes[c].value.t # "null" /\ ~HasChildren(nodes, c) THEN parseValue(nodes[c].value)
    ELSE convertNode(nodes, c, t2k)

\* node.children.forEach(c => ...) of the isObject branch
convertObjectEntries(nodes, kids, i, t2k, acc) ==
    IF i > Len(kids) THEN acc
    ELSE With(ObjSet(acc, ToStr(getKey(t2k, nodes[kids[i]].key.s)),
                     convertObjectEntry(nodes, kids[i], t2k)), LAMBDA more :
            convertObjectEntries(nodes, kids, i + 1, t2k, more))

\* the value of one entry of the mixed branch and of the root object
convertMixedEntry(nodes, c, t2k) ==
    IF HasChildren(nodes, c) THEN convertNode(nodes, c, t2k)
    ELSE parseValue(nodes[c].value)

\* node.children.forEach(c => { if (c.key) ... }) of the mixed branch, which
\* is also the loop of the root object
convertMixedEntries(nodes, kids, i, t2k, acc) ==
    IF i > Len(kids) THEN acc
    ELSE With(IF KeyTruthy(nodes[kids[i]].key)
              THEN ObjSet(acc, ToStr(getKey(t2k, nodes[kids[i]].key.s)),
                          convertMixedEntry(nodes, kids[i], t2k))
              ELSE acc, LAMBDA more :
            convertMixedEntries(nodes, kids, i + 1, t2k, more))

\* convertNode(node)
convertNode(nodes, ref, t2k) ==
    With(Children(nodes, ref), LAMBDA kids :
        IF Len(kids) > 0
        THEN IF \A j \in 1..Len(kids) : nodes[kids[j]].isArrayItem
             THEN JArr(convertArrayItems(nodes, kids, 1, t2k, <<>>))
             ELSE IF \A j \in 1..Len(kids) : ~nodes[kids[j]].isArrayItem
             THEN JObj(convertObjectEntries(nodes, kids, 1, t2k, <<>>))
             ELSE JObj(convertMixedEntries(nodes, kids, 1, t2k, <<>>))
        ELSE parseValue(NodeAt(nodes, ref).value))

RECURSIVE convertRootItems(_, _, _, _, _)
\* rootNode.children.map(c => ...) of the root array
convertRootItems(nodes, kids, i, t2k, acc) ==
    IF i > Len(kids) THEN acc
    ELSE With(Append(acc, convertMixedEntry(nodes, kids[i], t2k)), LAMBDA more :
            convertRootItems(nodes, kids, i + 1, t2k, more))

\* the root handling, on the tree built
convertRoot(nodes, t2k) ==
    With(Children(nodes, RootRef), LAMBDA kids :
        IF \A j \in 1..Len(kids) : nodes[kids[j]].isArrayItem
        THEN JArr(convertRootItems(nodes, kids, 1, t2k, <<>>))
        ELSE JObj(convertMixedEntries(nodes, kids, 1, t2k, <<>>)))

\* the value toonToJson hands to JSON.stringify
toonToJsonValue(t2k, toonInput) ==
    With(buildTree(toonInput).nodes, LAMBDA nodes : convertRoot(nodes, t2k))

(***************************************************************************)
(* JSON.stringify(value, null, 2)                                          *)
(***************************************************************************)
\* the escape JSON writes for one of the characters " \ newline tab
\* carriage return form feed
Escape(c) ==
    IF c = "\"" THEN "\\\""
    ELSE IF c = "\\" THEN "\\\\"
    ELSE IF c = "\n" THEN "\\n"
    ELSE IF c = "\r" THEN "\\r"
    ELSE IF c = "\f" THEN "\\f"
    ELSE "\\t"

RECURSIVE QuoteBody(_)
\* the characters of a string as JSON writes them between the quotes
QuoteBody(s) ==
    With({j \in 1..Len(s) : CharAt(s, j) \in {"\"", "\\", "\n", "\t", "\r", "\f"}}, LAMBDA stops :
        IF stops = {} THEN s
        ELSE With(SetMin(stops), LAMBDA j :
                With(SubSeq(s, j + 1, Len(s)), LAMBDA rest :
                    SubSeq(s, 1, j - 1) \o Escape(CharAt(s, j)) \o QuoteBody(rest))))

Quote(s) == "\"" \o QuoteBody(s) \o "\""

RECURSIVE Stringify(_, _)
RECURSIVE StringifyItems(_, _, _)
RECURSIVE StringifyEntries(_, _, _)

StringifyItems(items, i, level) ==
    Repeat("  ", level) \o Stringify(items[i], level)
    \o (IF i = Len(items) THEN "" ELSE ",\n" \o StringifyItems(items, i + 1, level))

StringifyEntries(entries, i, level) ==
    Repeat("  ", level) \o Quote(entries[i].k) \o ": " \o Stringify(entries[i].v, level)
    \o (IF i = Len(entries) THEN "" ELSE ",\n" \o StringifyEntries(entries, i + 1, level))

\* the text of value v whose own lines are indented by `level` units
Stringify(v, level) ==
    IF v.t = "null" THEN "null"
    ELSE IF v.t = "boolean" THEN (IF v.b THEN "true" ELSE "false")
    ELSE IF v.t = "number" THEN NumToString(v.n)
    ELSE IF v.t = "string" THEN Quote(v.s)
    ELSE IF v.t = "array"
    THEN IF Len(v.items) = 0 THEN "[]"
         ELSE "[\n" \o StringifyItems(v.items, 1, level + 1) \o "\n"
              \o Repeat("  ", level) \o "]"
    ELSE IF Len(v.entries) = 0 THEN "{}"
         ELSE "{\n" \o StringifyEntries(v.entries, 1, level + 1) \o "\n"
              \o Repeat("  ", level) \o "}"

\* the dictionary after getToken on every key token of the tree
mintKeys(d, nodes) ==
    LET acc[i \in 0..Len(nodes)] ==
            IF i = 0 THEN d
            ELSE IF nodes[i].key.t = "string"
            THEN getToken(acc[i - 1], nodes[i].key.s).dict
            ELSE acc[i - 1]
    IN  acc[Len(nodes)]

\* toonToJson, were it to resolve keys with getToken, which mints
toonToJsonMinting(d, toonInput) ==
    With(toonToJsonValue(d.tokenToKey, toonInput), LAMBDA val :
        [threw |-> FALSE, val |-> val, ret |-> Stringify(val, 0),
         dict |-> mintKeys(d, buildTree(toonInput).nodes)])

\* toonToJson(toonInput) with dictionary d: [threw, val, ret, dict], val being
\* the value stringified, ret the text returned, dict the dictionary after
toonToJson(d, toonInput) ==
    With(toonToJsonValue(d.tokenToKey, toonInput), LAMBDA val :
        [threw |-> FALSE, val |-> val, ret |-> Stringify(val, 0), dict |-> d])

(***************************************************************************)
(* Inputs.                                                                 *)
(***************************************************************************)
\* scalars and empty containers
Leaves ==
    {JNull, JBool(TRUE), JBool(FALSE), JNum(7), JNum(-3), JStr(""), JStr("a"),
     JArr(<<>>), JObj(<<>>)}

\* one more level of nesting around x
Wraps(x) ==
    {JArr(<<x>>), JArr(<<JStr("a"), x>>), JObj(<<KV("a", x)>>),
     JObj(<<KV("a", JNum(7)), KV("b", x)>>)}

RECURSIVE Values(_)
\* the values nested to depth <= d
Values(d) ==
    IF d = 0 THEN Leaves
    ELSE Values(d - 1) \cup UNION {Wraps(x) : x \in Values(d - 1)}

\* values of the round trip: null, booleans, integers, strings without colon,
\* dash or newline, arrays and objects nested to depth <= MaxDepth
RoundTripPool == Values(MaxDepth)

\* in-memory strings handed to jsonToToon: JSON texts and texts that are not
RawTexts ==
    {JStr("hello"), JStr("7"), JStr("{\"a\": 1}"), JStr("[1,"), JStr("[]"),
     JStr("\"a\""), JStr("{\"b\": [true, null]}"), JStr("{a: 1}"),
     JStr("{\"b\": 1")}

\* objects with the empty key, an inherited property name, and three keys
KeyCases ==
    {JObj(<<KV("", JNum(7))>>), JObj(<<KV("constructor", JNum(7))>>),
     JObj(<<KV("b", JStr("Goku")), KV("", JNum(9001)), KV("a", JArr(<<JObj(<<KV("b", JNull)>>)>>))>>),
     JArr(<<JObj(<<KV("a", JArr(<<>>)), KV("b", JObj(<<KV("a", JStr("yes"))>>))>>), JArr(<<JArr(<<JNum(7)>>)>>)>>)}

\* the values handed to jsonToToon
JsonPool == Values(1) \cup RawTexts \cup KeyCases

\* the texts handed to toonToJson
TextPool ==
    {"", "yes", "hello", "99: value", "01: Goku\n02: 9001",
     "03:\n  - Kamehameha\n  - Spirit Bomb", "constructor: 5", ": e",
     "01: null", "01:", "- 7\n- no", "- a\n01: b", "01:\n  02: x\n  - y\n  02: z",
     "01:\n    02: 1\n  03: 2\n 01: 3", "-\n  01: a\n  02:\n    - -3\n-\n  - b",
     "01: a:b\n\n  \n02 : - c ", "- 01: a\n-x", "- a\n: e\n01: b",
     "01: a\rb\r\n02: \fc\fd"}

\* the keys handed to getToken, the tokens handed to getKey
KeyPool == {"a", "b", "", "constructor"}
TokenPool == {"01", "02", "03", "99", "", "constructor"}

\* seed maps, as entries in order: well-formed ones, two keys on one token,
\* an empty token, a token that is no number
SeedPool ==
    {<<>>,
     <<KV("a", "01")>>,
     <<KV("b", "03"), KV("a", "01")>>,
     <<KV("a", "01"), KV("b", "01")>>,
     <<KV("b", "01"), KV("a", "01")>>,
     <<KV("a", "")>>,
     <<KV("a", "02"), KV("b", "")>>,
     <<KV("a", "x")>>}

(***************************************************************************)
(* The state machine: one converter, the last call made on it, whether a   *)
(* caller holds the objects getMapping returned, and the position of a     *)
(* round trip.                                                             *)
(***************************************************************************)
Call(op, arg, threw, error, ret, val) ==
    [op |-> op, arg |-> arg, threw |-> threw, error |-> error, ret |-> ret, val |-> val]

dict == Dict(keyToToken, tokenToKey, nextTokenId)

SetDict(d) ==
    /\ keyToToken' = d.keyToToken
    /\ tokenToKey' = d.tokenToKey
    /\ nextTokenId' = d.nextTokenId

SeedValue(seed) == JObj([i \in 1..Len(seed) |-> KV(seed[i].k, JStr(seed[i].v))])

NoTrip == [pc |-> "off", v |-> JNull, text |-> "", val |-> JNull]

\* the object EXAMPLE_JSON is the text of
ExampleValue ==
    JObj(<<KV("name", JStr("Goku")), KV("powerLevel", JNum(9001)),
           KV("isSuperSaiyan", JBool(TRUE)),
           KV("techniques", JArr(<<JStr("Kamehameha"), JStr("Spirit Bomb")>>)),
           KV("stats", JObj(<<KV("strength", JNum(100)), KV("speed", JNum(95))>>))>>)

\* EXAMPLE_JSON = JSON.stringify({...}, null, 2)
ExampleJson == Stringify(ExampleValue, 0)

\* the state of ConverterPage besides the converter and the mapping: the two
\* text boxes and the error shown (null when none)
Page(jsonInput, toonInput, error) ==
    [jsonInput |-> jsonInput, toonInput |-> toonInput, error |-> error]

\* useState(EXAMPLE_JSON), useState(""), useState(null)
PageStart == Page(ExampleJson, "", JNull)

\* new ToonConverter(seed)
InitWith(seed) ==
    /\ \E d \in {Construct(seed)} :
          /\ keyToToken = d.keyToToken
          /\ tokenToKey = d.tokenToKey
          /\ nextTokenId = d.nextTokenId
    /\ held = {}
    /\ call = Call("new", SeedValue(seed), FALSE, "", JUndefined, JNull)

Init == \E seed \in SeedPool : InitWith(seed) /\ rt = NoTrip /\ page = PageStart

\* new ToonConverter(): the default initialMap = {}
InitFresh == InitWith(<<>>) /\ rt = NoTrip /\ page = PageStart

\* converter.jsonToToon(v)
DoJsonToToon(v) ==
    \E r \in {jsonToToon(dict, v)} :
        /\ r.dict.nextTokenId <= MaxTokenId
        /\ SetDict(r.dict)
        /\ call' = Call("jsonToToon", v, r.threw, r.error, JStr(r.ret), JNull)

\* converter.toonToJson(text)
DoToonToJson(text) ==
    \E r \in {toonToJson(dict, text)} :
        /\ SetDict(r.dict)
        /\ call' = Call("toonToJson", JStr(text), r.threw, "", JStr(r.ret), r.val)

JsonToToon(v) == DoJsonToToon(v) /\ UNCHANGED <<held, rt, page>>

\* a caller's converter.toonToJson(text): the text is one of the pool or the
\* text the jsonToToon call just before returned
ToonToJson(text) == DoToonToJson(text) /\ UNCHANGED <<held, rt, page>>

LastToon == IF call.op = "jsonToToon" /\ ~call.threw THEN {call.ret.s} ELSE {}

\* converter.getToken(key)
GetToken(key) ==
    \E r \in {getToken(dict, key)} :
        /\ r.dict.nextTokenId <= MaxTokenId
        /\ SetDict(r.dict)
        /\ call' = Call("getToken", JStr(key), FALSE, "", r.ret, JNull)
        /\ UNCHANGED <<held, rt, page>>

\* converter.getKey(token)
GetKey(token) ==
    /\ call' = Call("getKey", JStr(token), FALSE, "", getKey(tokenToKey, token), JNull)
    /\ UNCHANGED <<keyToToken, tokenToKey, nextTokenId, held, rt, page>>

\* converter.getMapping(): the caller now holds the two internal objects
GetMapping ==
    /\ held' = DOMAIN getMapping(dict)
    /\ call' = Call("getMapping", JNull, FALSE, "", JUndefined, JNull)
    /\ UNCHANGED <<keyToToken, tokenToKey, nextTokenId, rt, page>>

\* what a caller writes to an object it holds
WriteNames == {"a"}
WriteValues == {"09"}

\* mapping[name] = value by a caller, mapping being an object getMapping
\* returned: the same object as the converter's own
CallerWrite(object, name, value) ==
    /\ object \in held
    /\ keyToToken' = IF object = "keyToToken" THEN Put(keyToToken, name, value)
                     ELSE keyToToken
    /\ tokenToKey' = IF object = "tokenToKey" THEN Put(tokenToKey, name, value)
                     ELSE tokenToKey
    /\ call' = Call("write", JStr(name), FALSE, "", JStr(value), JNull)
    /\ UNCHANGED <<nextTokenId, held, rt, page>>

\* one encode of the round trip: the first, or the second after a decode
RoundTripEncode ==
    /\ rt.pc \in {"start", "decoded1"}
    /\ DoJsonToToon(rt.v)
    /\ rt' = IF call'.threw THEN [rt EXCEPT !.pc = "failed"]
             ELSE IF rt.pc = "start"
             THEN [rt EXCEPT !.pc = "encoded1", !.text = call'.ret.s]
             ELSE [rt EXCEPT !.pc = "encoded2"]
    /\ UNCHANGED <<held, page>>

\* one decode of the round trip, of the text the encode before it returned
RoundTripDecode ==
    /\ rt.pc \in {"encoded1", "encoded2"}
    /\ DoToonToJson(call.ret.s)
    /\ rt' = IF rt.pc = "encoded1"
             THEN [rt EXCEPT !.pc = "decoded1", !.val = call'.val]
             ELSE [rt EXCEPT !.pc = "decoded2"]
    /\ UNCHANGED <<held, page>>

Next ==
    \/ \E v \in JsonPool : JsonToToon(v)
    \/ \E text \in TextPool \cup LastToon : ToonToJson(text)
    \/ \E key \in KeyPool : GetToken(key)
    \/ \E token \in TokenPool : GetKey(token)

Spec == Init /\ [][Next]_vars

SpecFresh == InitFresh /\ [][Next]_vars

\* a converter whose caller may take the mapping and write to it
SnapshotNext ==
    \/ Next
    \/ GetMapping
    \/ \E object \in {"keyToToken", "tokenToKey"}, name \in WriteNames, value \in WriteValues :
          CallerWrite(object, name, value)

SpecSnapshot == InitFresh /\ [][SnapshotNext]_vars

\* encode, decode, encode and decode again of one value on a fresh converter
InitRoundTrip ==
    /\ InitWith(<<>>)
    /\ rt \in {[pc |-> "start", v |-> v, text |-> "", val |-> JNull] : v \in RoundTripPool}
    /\ page = PageStart

RoundTripNext == RoundTripEncode \/ RoundTripDecode

SpecRoundTrip == InitRoundTrip /\ [][RoundTripNext]_vars

(***************************************************************************)
(* ConverterPage: the two text boxes, the error, and the mapping the page  *)
(* shows, which after a conversion is the converter's own keyToToken       *)
(* object (held).  Toasts are not modelled.                                *)
(***************************************************************************)
\* texts typed into the JSON box, the empty text of the clear button included
JsonBoxPool ==
    {"", "{\"a\": 1}", "[1,", "{\"b\": [true, null]}", "[]", "hello", "7"}

\* texts typed into the TOON box, the empty text of the clear button included
ToonBoxPool == {"", "99: value", "- 7\n- no", "01: null", "yes", "01:\n  - x\n02: y"}

\* FailedToParseToon: the message handleToonToJson shows for any exception
FailedToParseToon == "Failed to parse TOON. Ensure format is correct."

\* onChange of the JSON box: setJsonInput(e.target.value); its clear button
TypeJson(text) ==
    /\ page' = [page EXCEPT !.jsonInput = text]
    /\ UNCHANGED <<keyToToken, tokenToKey, nextTokenId, held, call, rt>>

\* onChange of the TOON box: setToonInput(e.target.value); its clear button
TypeToon(text) ==
    /\ page' = [page EXCEPT !.toonInput = text]
    /\ UNCHANGED <<keyToToken, tokenToKey, nextTokenId, held, call, rt>>

\* updateMapping(): setMapping(converter.getMapping().keyToToken), the object
\* the page holds from then on
updateMapping == {"keyToToken"}

\* handleJsonToToon(): the JSON box encoded into the TOON box and the mapping
\* refreshed, or the error of jsonToToon shown
HandleJsonToToon ==
    \E r \in {jsonToToon(dict, JStr(page.jsonInput))} :
        /\ SetDict(r.dict)
        /\ call' = Call("jsonToToon", JStr(page.jsonInput), r.threw, r.error, JStr(r.ret), JNull)
        /\ IF r.threw
           THEN /\ page' = [page EXCEPT !.error = JStr(r.error)]
                /\ UNCHANGED held
           ELSE /\ page' = [page EXCEPT !.error = JNull, !.toonInput = r.ret]
                /\ held' = updateMapping
        /\ UNCHANGED rt

\* handleToonToJson(): the TOON box decoded, the result parsed and
\* stringified again into the JSON box and the mapping refreshed, or the
\* fixed message shown when any of it throws
HandleToonToJson ==
    \E r \in {toonToJson(dict, page.toonInput)} :
        \E parsed \in {JsonParse(r.ret)} :
            /\ SetDict(r.dict)
            /\ call' = Call("toonToJson", JStr(page.toonInput), r.threw, "", JStr(r.ret), r.val)
            /\ IF r.threw \/ ~parsed.ok
               THEN /\ page' = [page EXCEPT !.error = JStr(FailedToParseToon)]
                    /\ UNCHANGED held
               ELSE /\ page' = [page EXCEPT !.error = JNull,
                                            !.jsonInput = Stringify(parsed.v, 0)]
                    /\ held' = updateMapping
            /\ UNCHANGED rt

PageNext ==
    \/ \E text \in JsonBoxPool : TypeJson(text)
    \/ \E text \in ToonBoxPool : TypeToon(text)
    \/ HandleJsonToToon
    \/ HandleToonToJson

\* the page as first rendered: useState(() => new ToonConverter()), the example
\* in the JSON box, the TOON box empty, no mapping shown and no error
InitPage == InitWith(<<>>) /\ rt = NoTrip /\ page = PageStart

\* the page: its converter is used through the two handlers only
SpecPage == InitPage /\ [][PageNext]_vars

\* lines a text is built of: dash and key lines with and without a value at
\* indentations 0, 1, 2 and 4, and a line that is neither
LinePool ==
    {"-", "01: a", "02:", "  - y", "  01: b", "    02:", " 03: c", "  junk"}

\* the text decoded last with one more line (the line alone at first)
MoreText(line) == IF call.op = "toonToJson" THEN call.arg.s \o "\n" \o line ELSE line

\* converter.toonToJson of a text one line longer than the text decoded last
DecodeMore(line) ==
    /\ call.op \in {"new", "toonToJson"}
    /\ Len(SplitOn(MoreText(line), "\n")) <= MaxLines
    /\ DoToonToJson(MoreText(line))
    /\ UNCHANGED <<held, rt, page>>

TreeNext == \E line \in LinePool : DecodeMore(line)

SpecTree == InitFresh /\ [][TreeNext]_vars

\* inline values of a line: the words of the format in three spellings, the
\* empty value, integers, and other texts
LeafPool ==
    {"null", "NULL", "Null", "", "yes", "Yes", "YES", "no", "No", "NO",
     "0", "7", "-3", "007", "+5", "42",
     "Goku", "a b", "yes no", "7a", "nul", "nulls", "yesterday", "none", "-",
     "x:y", "true", "false"}

\* the places a leaf value is written at: after a key, after a dash, after a
\* dash under a key, after a key under a dash
ShapePool == {"key", "dash", "key-dash", "dash-key"}

\* the document with the leaf at the place the shape names
Doc(shape, leaf) ==
    IF shape = "key" THEN "01: " \o leaf
    ELSE IF shape = "dash" THEN "- " \o leaf
    ELSE IF shape = "key-dash" THEN "01:\n  - " \o leaf
    ELSE "-\n  02: " \o leaf

\* converter.toonToJson of a document with one leaf value
DecodeLeaf(shape, leaf) == DoToonToJson(Doc(shape, leaf)) /\ UNCHANGED <<held, rt, page>>

ScalarNext == \E shape \in ShapePool, leaf \in LeafPool : DecodeLeaf(shape, leaf)

SpecScalar == Init /\ [][ScalarNext]_vars

(***************************************************************************)
(* The claims.                                                             *)
(***************************************************************************)
RECURSIVE DeepEq(_, _)
\* deep equality of two JSON values: arrays by position, objects by key
DeepEq(a, b) ==
    /\ a.t = b.t
    /\ IF a.t = "array"
       THEN /\ Len(a.items) = Len(b.items)
            /\ \A i \in 1..Len(a.items) : DeepEq(a.items[i], b.items[i])
       ELSE IF a.t = "object"
       THEN /\ Len(a.entries) = Len(b.entries)
            /\ \A i \in 1..Len(a.entries) : \E j \in 1..Len(b.entries) :
                  /\ b.entries[j].k = a.entries[i].k
                  /\ DeepEq(a.entries[i].v, b.entries[j].v)
       ELSE a = b

Encoded(v) == call.op = "jsonToToon" /\ call.arg = v
Decoded(text) == call.op = "toonToJson" /\ call.arg = JStr(text)

\* C1: the round trip.  Encoding a value never fails; decoding the text gives
\* a value deep-equal to it; a second encode gives the same text and a second
\* decode the same value.
C1_RoundTrip ==
    /\ rt.pc # "failed"
    /\ rt.pc \in {"decoded1", "decoded2"} => DeepEq(call.val, rt.v)
    /\ rt.pc = "encoded2" => call.ret.s = rt.text
    /\ rt.pc = "decoded2" => call.val = rt.val

\* C2: jsonToToon never throws on an in-memory JSON value, a string that is
\* no JSON text included.
C2_NeverThrows == call.op = "jsonToToon" => ~call.threw

\* an object none of whose values is a non-empty container: one line an entry
IsFlat(v) ==
    /\ v.t = "object"
    /\ \A i \in 1..Len(v.entries) :
          IsComplex(v.entries[i].v) => v.entries[i].v \in {JArr(<<>>), JObj(<<>>)}

\* the line a key's empty container is to be written on, at the root level
EmptyLine(k, v) == keyToToken[k] \o ": " \o (IF v.t = "array" THEN "[]" ELSE "{}")

\* C3: jsonToToon([]) returns "[]", jsonToToon({}) returns "{}", and an empty
\* container under a key is written on the key's line as <token>: [] or
\* <token>: {}.
C3_EmptyContainers ==
    /\ Encoded(JArr(<<>>)) => call.ret.s = "[]"
    /\ Encoded(JObj(<<>>)) => call.ret.s = "{}"
    /\ call.op = "jsonToToon" /\ IsFlat(call.arg) /\ call.arg.entries # <<>> =>
          \A i \in 1..Len(call.arg.entries) :
              IsComplex(call.arg.entries[i].v) =>
                  /\ call.arg.entries[i].k \in DOMAIN keyToToken
                  /\ i <= Len(SplitOn(call.ret.s, "\n"))
                  /\ SplitOn(call.ret.s, "\n")[i]
                        = EmptyLine(call.arg.entries[i].k, call.arg.entries[i].v)

\* C4: jsonToToon(true) returns "yes", jsonToToon(false) returns "no", and
\* toonToJson("yes") gives the value true.
C4_BooleanRoot ==
    /\ Encoded(JBool(TRUE)) => call.ret.s = "yes"
    /\ Encoded(JBool(FALSE)) => call.ret.s = "no"
    /\ Decoded("yes") => call.val = JBool(TRUE)

\* C5: getKey(token) returns the registered key of a registered token, the
\* empty key included, and UNKNOWN_<token> for a token that is not
\* registered; "99: value" decodes to {"UNKNOWN_99": "value"} with an empty
\* dictionary.
C5_GetKey ==
    /\ call.op = "getKey" =>
          IF call.arg.s \in DOMAIN tokenToKey
          THEN call.ret = JStr(tokenToKey[call.arg.s])
          ELSE call.ret = JStr("UNKNOWN_" \o call.arg.s)
    /\ Decoded("99: value") /\ DOMAIN tokenToKey = {} =>
          call.val = JObj(<<KV("UNKNOWN_99", JStr("value"))>>)

\* C6: tokenToKey is the exact inverse of keyToToken in every state.
C6_ExactInverse ==
    /\ \A k \in DOMAIN keyToToken :
          /\ keyToToken[k] \in DOMAIN tokenToKey
          /\ tokenToKey[keyToToken[k]] = k
    /\ \A t \in DOMAIN tokenToKey :
          /\ tokenToKey[t] \in DOMAIN keyToToken
          /\ keyToToken[tokenToKey[t]] = t

\* the counter the constructor starts from
StartsAfterSeed ==
    nextTokenId = IF ExistingIds(keyToToken) = {} THEN 1
                  ELSE SetMax(ExistingIds(keyToToken)) + 1

\* no key changes its token, no token its key
NeverRebound ==
    /\ \A k \in DOMAIN keyToToken :
          k \in DOMAIN keyToToken' /\ keyToToken'[k] = keyToToken[k]
    /\ \A t \in DOMAIN tokenToKey :
          t \in DOMAIN tokenToKey' /\ tokenToKey'[t] = tokenToKey[t]

\* a token minted in this step is a number above every number in use before
MintsAbove ==
    \A k \in DOMAIN keyToToken' \ DOMAIN keyToToken :
        /\ ~ParseInt(keyToToken'[k]).nan
        /\ \A n \in ExistingIds(keyToToken) : ParseInt(keyToToken'[k]).n > n

\* C7: the counter starts at max(seed numeric tokens) + 1 or 1 and stays
\* above every numeric token in use; minted tokens increase strictly and are
\* above every token in use; no key is rebound to another token, no token to
\* another key.
C7_TokenMonotonic ==
    /\ StartsAfterSeed
    /\ [][/\ NeverRebound
          /\ MintsAbove
          /\ \A n \in ExistingIds(keyToToken') : nextTokenId' > n]_vars

\* C8: a second getToken(k) returns what the first returned and changes
\* nothing; a getToken(k) for a key without a token grows both mappings by
\* one entry and the counter by one.
C8_IdempotentLookup ==
    [][call'.op = "getToken" =>
          /\ call.op = "getToken" /\ call.arg = call'.arg =>
                /\ call'.ret = call.ret
                /\ UNCHANGED <<keyToToken, tokenToKey, nextTokenId>>
          /\ call'.arg.s \notin DOMAIN keyToToken =>
                /\ Cardinality(DOMAIN keyToToken') = Cardinality(DOMAIN keyToToken) + 1
                /\ Cardinality(DOMAIN tokenToKey') = Cardinality(DOMAIN tokenToKey) + 1
                /\ nextTokenId' = nextTokenId + 1]_vars

\* C9: toonToJson leaves keyToToken, tokenToKey and nextTokenId as they were,
\* whatever the text.
C9_DecodeLeavesDictionary ==
    [][call'.op = "toonToJson" =>
          UNCHANGED <<keyToToken, tokenToKey, nextTokenId>>]_vars

\* a text with a token that is not registered has been decoded on a converter
\* whose dictionary holds tokens
C9_Witness ==
    /\ call.op = "toonToJson"
    /\ call.val.t = "object"
    /\ \E i \in 1..Len(call.val.entries) : StartsWith(call.val.entries[i].k, "UNKNOWN_")
    /\ DOMAIN tokenToKey # {}

\* C10: a caller's write to an object getMapping returned changes neither
\* internal mapping.
C10_SnapshotReadOnly ==
    [][call'.op = "write" =>
          UNCHANGED <<keyToToken, tokenToKey>>]_vars

\* raw texts JSON.parse rejects: a bare word, a truncated array, an unquoted
\* key, a truncated object
UnparsableTexts == {"hello", "[1,", "{a: 1}", "{\"b\": 1"}

\* C11: jsonToToon of a raw text that is no JSON throws "Invalid JSON input",
\* returns nothing, and leaves keyToToken, tokenToKey and nextTokenId as they
\* were.
C11_InvalidTextRejected ==
    [][call'.op = "jsonToToon" /\ call'.arg.t = "string"
          /\ call'.arg.s \in UnparsableTexts =>
              /\ call'.threw
              /\ call'.error = "Invalid JSON input"
              /\ call'.ret = JStr("")
              /\ UNCHANGED <<keyToToken, tokenToKey, nextTokenId>>]_vars

\* the truncated object, whose key b has no token yet, has been rejected by a
\* converter whose dictionary holds other keys
C11_Witness ==
    /\ call.op = "jsonToToon"
    /\ call.arg = JStr("{\"b\": 1")
    /\ call.threw
    /\ DOMAIN keyToToken # {}
    /\ "b" \notin DOMAIN keyToToken
    /\ nextTokenId > 1

\* the value decoded at the place the shape names
LeafOf(shape, val) ==
    IF shape = "key" THEN val.entries[1].v
    ELSE IF shape = "dash" THEN val.items[1]
    ELSE IF shape = "key-dash" THEN val.entries[1].v.items[1]
    ELSE val.items[1].entries[1].v

\* the leaves that are numbers in full, and their values
NumberTexts ==
    ("0" :> 0) @@ ("7" :> 7) @@ ("-3" :> -3) @@ ("007" :> 7) @@ ("+5" :> 5)
    @@ ("42" :> 42)

\* the value a leaf stands for: null for null and the empty value, true for
\* yes, false for no, the number for a number, else the text itself
ScalarOf(leaf) ==
    IF leaf \in {"null", ""} THEN JNull
    ELSE IF leaf = "yes" THEN JBool(TRUE)
    ELSE IF leaf = "no" THEN JBool(FALSE)
    ELSE IF leaf \in DOMAIN NumberTexts THEN JNum(NumberTexts[leaf])
    ELSE JStr(leaf)

\* C12: every leaf inline value decodes, case-sensitively, to null for the
\* text null or an empty value, true for yes, false for no, the number for a
\* text that is a number in full, and the text itself otherwise.
C12_ScalarParsing ==
    \A shape \in ShapePool, leaf \in LeafPool :
        call.op = "toonToJson" /\ call.arg = JStr(Doc(shape, leaf)) =>
            LeafOf(shape, call.val) = ScalarOf(leaf)

\* the lines of a text that make a node: not blank, and starting with a dash
\* or holding a colon
ClassifiedLines(text) ==
    SelectSeq(SplitOn(text, "\n"),
              LAMBDA l : Trim(l) # "" /\ (StartsWith(Trim(l), "-") \/ IndexOf(l, ":") >= 0))

RECURSIVE Chain(_, _)
\* a node, its parent, its parent's parent, ... up to the root
Chain(nodes, ref) ==
    IF ref = RootRef THEN {RootRef}
    ELSE {ref} \cup Chain(nodes, nodes[ref].parent)

\* node j of the tree is under the nearest node of the chain of node j - 1
\* (the node added before it) whose indentation is below its own
NearestLower(nodes, j) ==
    /\ nodes[j].parent \in Chain(nodes, j - 1)
    /\ NodeAt(nodes, nodes[j].parent).indent < nodes[j].indent
    /\ \A q \in Chain(nodes, j - 1) \ Chain(nodes, nodes[j].parent) :
          NodeAt(nodes, q).indent >= nodes[j].indent

\* node j is the last child of its parent when it is added
LastChild(nodes, j) ==
    With(Children(SubSeq(nodes, 1, j), nodes[j].parent), LAMBDA kids :
        Len(kids) > 0 /\ kids[Len(kids)] = j)

\* the parent of every node is an earlier node, up to the root
WalkEnds(nodes) == \A j \in 1..Len(nodes) : nodes[j].parent \in 0..(j - 1)

\* the tree pass 1 builds from a text is well formed
TreeOf(text, nodes) ==
    /\ Len(nodes) = Len(ClassifiedLines(text))
    /\ WalkEnds(nodes)
    /\ \A j \in 1..Len(nodes) :
          /\ nodes[j].indent = SearchNonSpace(ClassifiedLines(text)[j])
          /\ NearestLower(nodes, j)
          /\ LastChild(nodes, j)
          /\ \A k \in 1..(j - 1) :
                nodes[k].parent = nodes[j].parent => k < j

\* C13: in the tree of every text, a node's parent is the nearest node on the
\* chain of the node added before it whose indentation is lower (the root if
\* none), the node is that parent's last child, every node is indented more
\* than its parent, and nodes and children follow the order of the lines.
C13_TreeShape ==
    call.op = "toonToJson" =>
        With(buildTree(call.arg.s).nodes, LAMBDA nodes : TreeOf(call.arg.s, nodes))

\* a text of four node lines whose last line climbs past two nodes to a
\* parent that is not the root
C13_Witness ==
    /\ call.op = "toonToJson"
    /\ With(buildTree(call.arg.s).nodes, LAMBDA nodes :
          /\ Len(nodes) = 4
          /\ nodes[4].parent = 1
          /\ nodes[3].parent = 2
          /\ nodes[2].parent = 1)

\* the children of a node are some array items and some object entries
IsMixed(nodes, ref) ==
    /\ \E j \in 1..Len(nodes) : nodes[j].parent = ref /\ nodes[j].isArrayItem
    /\ \E j \in 1..Len(nodes) : nodes[j].parent = ref /\ ~nodes[j].isArrayItem

\* the value of a child: of its children if it has any, else of its text
ChildValue(nodes, c, t2k) ==
    IF HasChildren(nodes, c) THEN convertNode(nodes, c, t2k)
    ELSE parseValue(nodes[c].value)

RECURSIVE EntriesOf(_, _, _, _, _)
\* the object of the object-entry children among kids, in order, the array
\* items skipped
EntriesOf(nodes, kids, i, t2k, acc) ==
    IF i > Len(kids) THEN acc
    ELSE IF nodes[kids[i]].isArrayItem THEN EntriesOf(nodes, kids, i + 1, t2k, acc)
    ELSE EntriesOf(nodes, kids, i + 1, t2k,
                   ObjSet(acc, ToStr(getKey(t2k, nodes[kids[i]].key.s)),
                          ChildValue(nodes, kids[i], t2k)))

\* every node with mixed children, the root included, decodes to the object
\* of its object-entry children
MixedAsObject(nodes, t2k, rootValue) ==
    \A ref \in 0..Len(nodes) :
        IsMixed(nodes, ref) =>
            (IF ref = RootRef THEN rootValue ELSE convertNode(nodes, ref, t2k))
                = JObj(EntriesOf(nodes, Children(nodes, ref), 1, t2k, <<>>))

\* C14: toonToJson does not throw and returns the text of a JSON value for
\* every text; a node or root with mixed children decodes to the object of
\* its object-entry children in order, array items skipped; a line that has
\* neither a leading dash nor a colon makes no node.
C14_DecodeNeverFails ==
    call.op = "toonToJson" =>
        /\ ~call.threw
        /\ JsonParse(call.ret.s).ok
        /\ JsonParse(call.ret.s).v = call.val
        /\ With(buildTree(call.arg.s).nodes, LAMBDA nodes :
              /\ Len(nodes) = Len(ClassifiedLines(call.arg.s))
              /\ MixedAsObject(nodes, tokenToKey, call.val))
====
